---- MODULE Spec2Model ----
(***************************************************************************)
(* The three VeridianOS x86_64 helper scripts as one state machine:        *)
(*   scripts/testing/test-x86-kernel.py   ("test")                         *)
(*   scripts/build-disk-image.py          ("build")                        *)
(*   create-uefi-image.py                 ("uefi")                         *)
(* A run is one invocation of one script.  The script's own steps are the  *)
(* T_*, B_*, U_* actions; the child processes it blocks on (objdump, QEMU, *)
(* the bootloader shim interpreter) are the environment actions in         *)
(* between.  Text is a sequence of tokens; captured output is a sequence   *)
(* of one-character tokens.                                                *)
(***************************************************************************)
EXTENDS Integers, Sequences, FiniteSets, TLC

\* ------------------------------------------------------------------ bounds
\* QEMU writes at most MaxChunks chunks to its stdout in one launch.
MaxChunks == 3
\* The caller invokes create-uefi-image.py at most MaxRuns times in a row.
MaxRuns == 2

\* --------------------------------------------------------------- constants
Scripts == {"test", "build", "uefi"}
Children == {"objdump", "qemu", "shim"}

KernelPath == "target/x86_64-unknown-none/debug/veridian-kernel"
OutputImage == "veridian-uefi.img"
BuildCommand == "cargo build --target x86_64-unknown-none -p veridian-kernel"

BOOTOK == <<"B", "O", "O", "T", "O", "K">>
S6 == <<"S", "6">>

\* What QEMU may write in one go: pieces of the markers and unrelated bytes.
Chunks == { <<"B", "O", "O", "T">>, <<"O", "K">>, <<"S", "6">>, <<"x">> }
\* What a child may have written to its stderr when it ends.
QemuStderrs == { <<>>, <<"q", "!">> }
ObjdumpStdout == <<".", "t", "e", "x", "t">>
ObjdumpStderr == <<"o", "!">>
ShimTraceback == <<"M", "o", "d", "u", "l", "e", "N", "o", "t", "F", "o", "u", "n", "d">>
ShimError == <<"E", "r", "r", "o", "r", ":", "e">>
ShimCreated == <<"U", "E", "F", "I", " ", "o", "k">>

\* ----------------------------------------------------------------- helpers
\* needle is a prefix of hay
StartsWith(hay, needle) ==
    /\ Len(needle) <= Len(hay)
    /\ SubSeq(hay, 1, Len(needle)) = needle

\* Python's `needle in hay` on str: a left-to-right substring search.
RECURSIVE In(_, _)
In(needle, hay) ==
    IF Len(needle) > Len(hay) THEN FALSE
    ELSE IF StartsWith(hay, needle) THEN TRUE
    ELSE In(needle, Tail(hay))

\* sys.exit(arg) / the interpreter's exit status for a value returned to it:
\* None is 0, an int is itself (bool is an int: False is 0, True is 1).
PyNone == <<"NoneType", 0>>
PyFalse == <<"bool", 0>>
PyInt(n) == <<"int", n>>
SysExitCode(v) == IF v[1] = "NoneType" THEN 0 ELSE v[2]

\* ------------------------------------------------------------------- state
VARIABLES
    script,         \* which script this run executes
    pc,             \* the script's position
    kernel_exists,  \* kernel_path.exists()
    image,          \* the file veridian-uefi.img: "absent", "old", "partial", "written"
    created,        \* files and directories this run has created
    proc,           \* per child: state, what it wrote, how often it was spawned
    shim_pc,        \* the bootloader shim's position
    result,         \* the CompletedProcess the last subprocess.run returned
    printed,        \* everything the script has shown the operator, in order
    mainValue,      \* what main() returned
    exitCode,       \* the process exit status (-1 while running)
    timedOut,       \* the VM was still running at the deadline
    runs,           \* invocations so far
    prev            \* the caller's record of an earlier run: <<>> or <<record>>

vars == <<script, pc, kernel_exists, image, created, proc, shim_pc, result,
          printed, mainValue, exitCode, timedOut, runs, prev>>

NoProc == [state |-> "none", stdout |-> <<>>, stderr |-> <<>>, spawned |-> 0, writes |-> 0]
NoResult == [stdout |-> <<>>, stderr |-> <<>>, returncode |-> 0]

\* print(...): one more item shown to the operator
Say(items) == printed' = printed \o items

FreshRun ==
    /\ pc = "start"
    /\ created = {}
    /\ proc = [c \in Children |-> NoProc]
    /\ shim_pc = "none"
    /\ result = NoResult
    /\ printed = <<>>
    /\ mainValue = PyNone
    /\ exitCode = -1
    /\ timedOut = FALSE

Init ==
    /\ script \in Scripts
    /\ kernel_exists \in BOOLEAN
    /\ image \in {"absent", "old"}
    /\ FreshRun
    /\ runs = 1
    /\ prev = <<>>

\* Popen: the child exists and runs; nothing captured yet
Started(p) == [state |-> "running", stdout |-> <<>>, stderr |-> <<>>,
               spawned |-> p.spawned + 1, writes |-> 0]

\* An exception no handler catches: the interpreter prints the traceback and
\* the process ends with status 1.
Uncaught(what) ==
    /\ Say(<< <<"Traceback (most recent call last):", what>> >>)
    /\ exitCode' = 1
    /\ pc' = "done"

\* ------------------------------------------------- scripts/testing/test-x86-kernel.py
T_QemuCmd == "qemu-system-x86_64 -kernel target/x86_64-unknown-none/debug/veridian-kernel -append console=ttyS0 -serial stdio -display none -m 512M -no-reboot -no-shutdown -device isa-debug-exit,iobase=0xf4,iosize=0x04"

MsgKernelMissing == <<"Kernel binary not found at:", KernelPath>>
MsgSuccess == <<"SUCCESS: Found BOOTOK in output!">>
MsgPartial == <<"PARTIAL SUCCESS: Found Stage 6 but no BOOTOK">>
MsgFailure == <<"No Stage 6 or BOOTOK found in output">>
MsgTimeout15 == <<"QEMU timed out after 15 seconds - checking if kernel is running...">>
MsgQemuMissing == <<"QEMU not found. Please install qemu-system-x86_64">>

\* T_CheckKernel with the `return 1` of line 16 lost: the message is printed
\* and the run carries on.
T_CheckKernel_NoReturn ==
    /\ script = "test" /\ pc = "start"
    /\ IF ~kernel_exists
       THEN Say(<< MsgKernelMissing >>)
       ELSE Say(<< <<"Testing x86_64 kernel:", KernelPath>>,
                   <<"Creating simple test with QEMU multiboot...">> >>)
    /\ pc' = "objdump"
    /\ UNCHANGED <<script, kernel_exists, image, created, proc, shim_pc, result,
                   mainValue, exitCode, timedOut, runs, prev>>

\* lines 12-21: the existence check, then the banner
T_CheckKernel ==
    /\ script = "test" /\ pc = "start"
    /\ IF ~kernel_exists
       THEN /\ Say(<< MsgKernelMissing >>)
            /\ mainValue' = PyInt(1)
            /\ pc' = "exit"
       ELSE /\ Say(<< <<"Testing x86_64 kernel:", KernelPath>>,
                      <<"Creating simple test with QEMU multiboot...">> >>)
            /\ pc' = "objdump"
            /\ UNCHANGED mainValue
    /\ UNCHANGED <<script, kernel_exists, image, created, proc, shim_pc, result,
                   exitCode, timedOut, runs, prev>>

\* lines 24-27: objdump -h, outside any try; only its stdout is printed
T_RunObjdump ==
    /\ script = "test" /\ pc = "objdump"
    /\ \E installed \in BOOLEAN, ok \in BOOLEAN :
          IF ~installed
          THEN /\ Uncaught("FileNotFoundError: objdump")
               /\ UNCHANGED <<proc, result>>
          ELSE LET out == IF ok THEN ObjdumpStdout ELSE <<>>
                   err == IF ok THEN <<>> ELSE ObjdumpStderr
               IN /\ proc' = [proc EXCEPT !["objdump"] =
                                [state |-> "reaped", stdout |-> out, stderr |-> err,
                                 spawned |-> @.spawned + 1, writes |-> 1]]
                  /\ result' = [stdout |-> out, stderr |-> err,
                                returncode |-> IF ok THEN 0 ELSE 1]
                  /\ Say(<< <<"Kernel sections:">>, out >>)
                  /\ pc' = "launch"
                  /\ UNCHANGED exitCode
    /\ UNCHANGED <<script, kernel_exists, image, created, shim_pc, mainValue,
                   timedOut, runs, prev>>

\* lines 30-45: the command line is printed, then subprocess.run starts QEMU
T_Launch ==
    /\ script = "test" /\ pc = "launch"
    /\ Say(<< <<"Running:", T_QemuCmd>> >>)
    /\ \E found \in BOOLEAN :
          IF found
          THEN /\ proc' = [proc EXCEPT !["qemu"] = Started(@)]
               /\ pc' = "wait"
          ELSE /\ pc' = "notfound"
               /\ UNCHANGED proc
    /\ UNCHANGED <<script, kernel_exists, image, created, shim_pc, result,
                   mainValue, exitCode, timedOut, runs, prev>>

\* T_Classify with the two marker tests in the other order.
T_Classify_S6First ==
    /\ script = "test" /\ pc = "returned"
    /\ LET verdict == IF In(S6, result.stdout) THEN <<MsgPartial, 0>>
                      ELSE IF In(BOOTOK, result.stdout) THEN <<MsgSuccess, 0>>
                      ELSE <<MsgFailure, 1>>
       IN /\ Say(<< <<"QEMU stdout:">>, result.stdout,
                    <<"QEMU stderr:">>, result.stderr,
                    <<"QEMU exit code:", ToString(result.returncode)>>,
                    verdict[1] >>)
          /\ mainValue' = PyInt(verdict[2])
    /\ pc' = "exit"
    /\ UNCHANGED <<script, kernel_exists, image, created, proc, shim_pc, result,
                   exitCode, timedOut, runs, prev>>

\* lines 46-61: the captured streams, then the first marker that matches
T_Classify ==
    /\ script = "test" /\ pc = "returned"
    /\ LET verdict == IF In(BOOTOK, result.stdout) THEN <<MsgSuccess, 0>>
                      ELSE IF In(S6, result.stdout) THEN <<MsgPartial, 0>>
                      ELSE <<MsgFailure, 1>>
       IN /\ Say(<< <<"QEMU stdout:">>, result.stdout,
                    <<"QEMU stderr:">>, result.stderr,
                    <<"QEMU exit code:", ToString(result.returncode)>>,
                    verdict[1] >>)
          /\ mainValue' = PyInt(verdict[2])
    /\ pc' = "exit"
    /\ UNCHANGED <<script, kernel_exists, image, created, proc, shim_pc, result,
                   exitCode, timedOut, runs, prev>>

\* lines 63-65: except subprocess.TimeoutExpired
T_Timeout ==
    /\ script = "test" /\ pc = "timeout"
    /\ Say(<< MsgTimeout15 >>)
    /\ mainValue' = PyInt(2)
    /\ pc' = "exit"
    /\ UNCHANGED <<script, kernel_exists, image, created, proc, shim_pc, result,
                   exitCode, timedOut, runs, prev>>

\* lines 66-68: except FileNotFoundError
T_NotFound ==
    /\ script = "test" /\ pc = "notfound"
    /\ Say(<< MsgQemuMissing >>)
    /\ mainValue' = PyInt(1)
    /\ pc' = "exit"
    /\ UNCHANGED <<script, kernel_exists, image, created, proc, shim_pc, result,
                   exitCode, timedOut, runs, prev>>

\* lines 70-71: sys.exit(main())
T_Exit ==
    /\ script = "test" /\ pc = "exit"
    /\ exitCode' = SysExitCode(mainValue)
    /\ pc' = "done"
    /\ UNCHANGED <<script, kernel_exists, image, created, proc, shim_pc, result,
                   printed, mainValue, timedOut, runs, prev>>

\* ------------------------------------------------------- the QEMU child process
\* QEMU writes to the pipe subprocess.run is reading
QemuWrite ==
    /\ pc = "wait" /\ proc["qemu"].state = "running"
    /\ proc["qemu"].writes < MaxChunks
    /\ \E chunk \in Chunks :
          proc' = [proc EXCEPT !["qemu"].stdout = @ \o chunk,
                               !["qemu"].writes = @ + 1]
    /\ UNCHANGED <<script, pc, kernel_exists, image, created, shim_pc, result,
                   printed, mainValue, exitCode, timedOut, runs, prev>>

\* QEMU ends before the deadline; subprocess.run reaps it and returns
QemuExit ==
    /\ pc = "wait" /\ proc["qemu"].state = "running"
    /\ \E rc \in {0, 1}, err \in QemuStderrs :
          /\ proc' = [proc EXCEPT !["qemu"].state = "reaped",
                                  !["qemu"].stderr = err]
          /\ result' = [stdout |-> proc["qemu"].stdout, stderr |-> err,
                        returncode |-> rc]
    /\ pc' = "returned"
    /\ UNCHANGED <<script, kernel_exists, image, created, shim_pc, printed,
                   mainValue, exitCode, timedOut, runs, prev>>

\* QemuDeadline where the expired launch hands back what was captured so far
\* as if QEMU had ended, instead of raising TimeoutExpired.
QemuDeadline_ReturnsPartial ==
    /\ pc = "wait" /\ proc["qemu"].state = "running"
    /\ proc' = [proc EXCEPT !["qemu"].state = "reaped"]
    /\ result' = [stdout |-> proc["qemu"].stdout, stderr |-> <<>>,
                  returncode |-> 1]
    /\ timedOut' = TRUE
    /\ pc' = "returned"
    /\ UNCHANGED <<script, kernel_exists, image, created, shim_pc, printed,
                   mainValue, exitCode, runs, prev>>

\* QemuDeadline where TimeoutExpired is raised with the child left running
\* (a bare wait with a timeout, no kill).
QemuDeadline_NoKill ==
    /\ pc = "wait" /\ proc["qemu"].state = "running"
    /\ timedOut' = TRUE
    /\ pc' = "timeout"
    /\ UNCHANGED <<script, kernel_exists, image, created, proc, shim_pc, result,
                   printed, mainValue, exitCode, runs, prev>>

\* The deadline passes with QEMU still running: subprocess.run kills the
\* child, waits for it and raises TimeoutExpired
QemuDeadline ==
    /\ pc = "wait" /\ proc["qemu"].state = "running"
    /\ proc' = [proc EXCEPT !["qemu"].state = "reaped"]
    /\ timedOut' = TRUE
    /\ pc' = "timeout"
    /\ UNCHANGED <<script, kernel_exists, image, created, shim_pc, result,
                   printed, mainValue, exitCode, runs, prev>>

\* ----------------------------------------------------- scripts/build-disk-image.py
B_QemuCmd == "qemu-system-x86_64 -kernel target/x86_64-unknown-none/debug/veridian-kernel -serial stdio -display none -no-reboot -no-shutdown"

MsgTimeout30 == <<"QEMU timed out after 30 seconds - this might be normal for a looping kernel">>

\* lines 13-34: the existence check, the banner, the command line
B_CheckKernel ==
    /\ script = "build" /\ pc = "start"
    /\ IF ~kernel_exists
       THEN /\ Say(<< MsgKernelMissing >>)
            /\ mainValue' = PyInt(1)
            /\ pc' = "exit"
       ELSE /\ Say(<< <<"Creating simple disk image for kernel:", KernelPath>>,
                      <<"Testing x86_64 kernel boot with QEMU...">>,
                      <<"Running:", B_QemuCmd>> >>)
            /\ pc' = "launch"
            /\ UNCHANGED mainValue
    /\ UNCHANGED <<script, kernel_exists, image, created, proc, shim_pc, result,
                   exitCode, timedOut, runs, prev>>

\* lines 36-37: subprocess.run starts QEMU
B_Launch ==
    /\ script = "build" /\ pc = "launch"
    /\ \E found \in BOOLEAN :
          IF found
          THEN /\ proc' = [proc EXCEPT !["qemu"] = Started(@)]
               /\ pc' = "wait"
          ELSE /\ pc' = "notfound"
               /\ UNCHANGED proc
    /\ UNCHANGED <<script, kernel_exists, image, created, shim_pc, result,
                   printed, mainValue, exitCode, timedOut, runs, prev>>

\* lines 38-42 and 49: the captured streams, then return 0
B_Report ==
    /\ script = "build" /\ pc = "returned"
    /\ Say(<< <<"QEMU stdout:">>, result.stdout,
              <<"QEMU stderr:">>, result.stderr,
              <<"QEMU exit code:", ToString(result.returncode)>> >>)
    /\ mainValue' = PyInt(0)
    /\ pc' = "exit"
    /\ UNCHANGED <<script, kernel_exists, image, created, proc, shim_pc, result,
                   exitCode, timedOut, runs, prev>>

\* lines 43-44 and 49: except subprocess.TimeoutExpired falls through to return 0
B_Timeout ==
    /\ script = "build" /\ pc = "timeout"
    /\ Say(<< MsgTimeout30 >>)
    /\ mainValue' = PyInt(0)
    /\ pc' = "exit"
    /\ UNCHANGED <<script, kernel_exists, image, created, proc, shim_pc, result,
                   exitCode, timedOut, runs, prev>>

\* lines 45-47: except FileNotFoundError
B_NotFound ==
    /\ script = "build" /\ pc = "notfound"
    /\ Say(<< MsgQemuMissing >>)
    /\ mainValue' = PyInt(1)
    /\ pc' = "exit"
    /\ UNCHANGED <<script, kernel_exists, image, created, proc, shim_pc, result,
                   exitCode, timedOut, runs, prev>>

\* lines 51-52: sys.exit(main())
B_Exit ==
    /\ script = "build" /\ pc = "exit"
    /\ exitCode' = SysExitCode(mainValue)
    /\ pc' = "done"
    /\ UNCHANGED <<script, kernel_exists, image, created, proc, shim_pc, result,
                   printed, mainValue, timedOut, runs, prev>>

\* ------------------------------------------------------------ create-uefi-image.py
U_ShimCmd == "python3 -c <bootloader shim> target/x86_64-unknown-none/debug/veridian-kernel veridian-uefi.img"

MsgKernelMissingU == <<"Error: Kernel not found at", KernelPath>>
MsgRemediation == <<"Please build the kernel first with:", BuildCommand>>
MsgImageCreated == <<"UEFI image created:", OutputImage>>
MsgFallback == <<"Falling back to manual UEFI image creation...">>

\* run_command, lines 18-21: with check set, a non-zero exit is fatal
RunCommandFails(check, res) == check /\ res.returncode # 0

\* lines 26-35: the banner, the existence check, sys.exit(1)
U_CheckKernel ==
    /\ script = "uefi" /\ pc = "start"
    /\ IF ~kernel_exists
       THEN /\ Say(<< <<"Creating UEFI-bootable disk image for VeridianOS x86_64...">>,
                      MsgKernelMissingU, MsgRemediation >>)
            /\ exitCode' = 1
            /\ pc' = "done"
       ELSE /\ Say(<< <<"Creating UEFI-bootable disk image for VeridianOS x86_64...">> >>)
            /\ pc' = "shim"
            /\ UNCHANGED exitCode
    /\ UNCHANGED <<script, kernel_exists, image, created, proc, shim_pc, result,
                   mainValue, timedOut, runs, prev>>

\* lines 38-63 and 16-17: run_command prints the command line and starts the
\* nested interpreter with both streams captured
U_RunCommand ==
    /\ script = "uefi" /\ pc = "shim"
    /\ Say(<< <<"Running:", U_ShimCmd>> >>)
    /\ \E found \in BOOLEAN :
          IF found
          THEN /\ proc' = [proc EXCEPT !["shim"] = Started(@)]
               /\ shim_pc' = "import"
               /\ pc' = "wait"
          ELSE /\ pc' = "except"
               /\ UNCHANGED <<proc, shim_pc>>
    /\ UNCHANGED <<script, kernel_exists, image, created, result, mainValue,
                   exitCode, timedOut, runs, prev>>

\* The shim ends: subprocess.run reaps it and returns what it captured
ShimEnds(out, err, rc) ==
    /\ proc' = [proc EXCEPT !["shim"] =
                  [state |-> "reaped", stdout |-> out, stderr |-> err,
                   spawned |-> @.spawned, writes |-> 1]]
    /\ result' = [stdout |-> out, stderr |-> err, returncode |-> rc]
    /\ shim_pc' = "ended"
    /\ pc' = "returned"

\* shim line 43: import bootloader, outside the shim's try
ShimImport ==
    /\ script = "uefi" /\ pc = "wait" /\ shim_pc = "import"
    /\ \E ok \in BOOLEAN :
          IF ok
          THEN /\ shim_pc' = "create"
               /\ UNCHANGED <<pc, proc, result>>
          ELSE ShimEnds(<<>>, ShimTraceback, 1)
    /\ UNCHANGED <<script, kernel_exists, image, created, printed, mainValue,
                   exitCode, timedOut, runs, prev>>

\* shim line 52: bootloader.create_disk_images(...)
ShimCreate ==
    /\ script = "uefi" /\ pc = "wait" /\ shim_pc = "create"
    /\ \E ok \in BOOLEAN :
          IF ok
          THEN /\ shim_pc' = "open"
               /\ UNCHANGED <<pc, proc, result>>
          ELSE ShimEnds(ShimError, <<>>, 1)
    /\ UNCHANGED <<script, kernel_exists, image, created, printed, mainValue,
                   exitCode, timedOut, runs, prev>>

\* shim line 53: open(output_path, 'wb') creates or truncates the file
ShimOpen ==
    /\ script = "uefi" /\ pc = "wait" /\ shim_pc = "open"
    /\ \E ok \in BOOLEAN :
          IF ok
          THEN /\ image' = "partial"
               /\ created' = IF image = "absent" THEN created \cup {OutputImage}
                             ELSE created
               /\ shim_pc' = "write"
               /\ UNCHANGED <<pc, proc, result>>
          ELSE /\ ShimEnds(ShimError, <<>>, 1)
               /\ UNCHANGED <<image, created>>
    /\ UNCHANGED <<script, kernel_exists, printed, mainValue, exitCode, timedOut,
                   runs, prev>>

\* shim lines 54-58: f.write(disk_image.uefi), the message, the exit
ShimWrite ==
    /\ script = "uefi" /\ pc = "wait" /\ shim_pc = "write"
    /\ \E ok \in BOOLEAN :
          IF ok
          THEN /\ image' = "written"
               /\ ShimEnds(ShimCreated, <<>>, 0)
          ELSE /\ ShimEnds(ShimError, <<>>, 1)
               /\ UNCHANGED image
    /\ UNCHANGED <<script, kernel_exists, created, printed, mainValue, exitCode,
                   timedOut, runs, prev>>

\* lines 18-22 and 64-69: run_command(cmd, check=False) returns the result;
\* a zero exit is reported as the image and main returns None
U_AfterRun ==
    /\ script = "uefi" /\ pc = "returned"
    /\ IF RunCommandFails(FALSE, result)
       THEN /\ Say(<< <<"Error running", "python3">>, result.stderr >>)
            /\ exitCode' = 1
            /\ pc' = "done"
            /\ UNCHANGED mainValue
       ELSE IF result.returncode = 0
       THEN /\ Say(<< MsgImageCreated, <<"">>, <<"To test with QEMU (UEFI):">>,
                      <<"qemu-system-x86_64 -drive format=raw,file=", OutputImage>> >>)
            /\ mainValue' = PyNone
            /\ pc' = "exit"
            /\ UNCHANGED exitCode
       ELSE /\ pc' = "fallback"
            /\ UNCHANGED <<printed, mainValue, exitCode>>
    /\ UNCHANGED <<script, kernel_exists, image, created, proc, shim_pc, result,
                   timedOut, runs, prev>>

\* lines 70-71: except Exception (the interpreter could not be started)
U_Except ==
    /\ script = "uefi" /\ pc = "except"
    /\ Say(<< <<"Bootloader approach failed:", "No such file or directory: 'python3'">> >>)
    /\ pc' = "fallback"
    /\ UNCHANGED <<script, kernel_exists, image, created, proc, shim_pc, result,
                   mainValue, exitCode, timedOut, runs, prev>>

\* lines 73-93: the temporary EFI/BOOT skeleton, the advice, return False
U_Fallback ==
    /\ script = "uefi" /\ pc = "fallback"
    /\ created' = created \cup {"tempdir", "tempdir/EFI/BOOT"}
    /\ Say(<< MsgFallback,
              <<"Note: Manual UEFI creation requires a proper UEFI bootloader">>,
              <<"The kernel needs to be linked as a UEFI application, not raw kernel">>,
              <<"">>,
              <<"Alternative approaches:">>,
              <<"1. Use GRUB with multiboot2 (ISO creation)">>,
              <<"2. Wait for bootloader 0.11 BIOS fix">>,
              <<"3. Downgrade to bootloader 0.9 temporarily">> >>)
    /\ mainValue' = PyFalse
    /\ pc' = "exit"
    /\ UNCHANGED <<script, kernel_exists, image, proc, shim_pc, result, exitCode,
                   timedOut, runs, prev>>

\* lines 95-96: main() is called and its value dropped; the interpreter ends
\* normally
U_Exit ==
    /\ script = "uefi" /\ pc = "exit"
    /\ exitCode' = SysExitCode(PyNone)
    /\ pc' = "done"
    /\ UNCHANGED <<script, kernel_exists, image, created, proc, shim_pc, result,
                   printed, mainValue, timedOut, runs, prev>>

\* ------------------------------------------------------------- what a run reports
\* The outcome a printed line announces
OutcomeOf(item) ==
    CASE item = MsgKernelMissing \/ item = MsgKernelMissingU -> "ArtifactNotFound"
      [] item = MsgSuccess -> "Success"
      [] item = MsgPartial -> "PartialSuccess"
      [] item = MsgFailure -> "Failure"
      [] item = MsgTimeout15 \/ item = MsgTimeout30 -> "Timeout"
      [] item = MsgQemuMissing -> "ToolMissing"
      [] item = MsgImageCreated -> "ImageCreated"
      [] item = MsgFallback -> "Unsupported"
      [] OTHER -> "none"

Outcomes == { OutcomeOf(printed[i]) : i \in DOMAIN printed } \ {"none"}

\* ------------------------------------------------------------------ the caller
\* The caller notes how the finished run ended and invokes the script again;
\* the kernel may have been built or removed in between, the image file stays
\* as the run left it.
Restart ==
    /\ script = "uefi" /\ pc = "done" /\ runs < MaxRuns
    /\ prev' = << [outcomes |-> Outcomes, exitCode |-> exitCode] >>
    /\ runs' = runs + 1
    /\ kernel_exists' \in BOOLEAN
    /\ pc' = "start"
    /\ created' = {}
    /\ proc' = [c \in Children |-> NoProc]
    /\ shim_pc' = "none"
    /\ result' = NoResult
    /\ printed' = <<>>
    /\ mainValue' = PyNone
    /\ exitCode' = -1
    /\ timedOut' = FALSE
    /\ UNCHANGED <<script, image>>

\* ------------------------------------------------------------- specifications
NextTest ==
    \/ T_CheckKernel \/ T_RunObjdump \/ T_Launch \/ T_Classify
    \/ T_Timeout \/ T_NotFound \/ T_Exit

NextBuild ==
    \/ B_CheckKernel \/ B_Launch \/ B_Report \/ B_Timeout \/ B_NotFound \/ B_Exit

NextQemu == QemuWrite \/ QemuExit \/ QemuDeadline

NextUefi ==
    \/ U_CheckKernel \/ U_RunCommand \/ ShimImport \/ ShimCreate \/ ShimOpen
    \/ ShimWrite \/ U_AfterRun \/ U_Except \/ U_Fallback \/ U_Exit

Next == NextTest \/ NextBuild \/ NextQemu \/ NextUefi

Spec == Init /\ [][Next]_vars

\* create-uefi-image.py invoked repeatedly by one caller
InitCaller == Init /\ script = "uefi"

NextCaller == NextUefi \/ Restart

SpecCaller == InitCaller /\ [][NextCaller]_vars

\* ===================================================================== claims
\* needle occurs in hay at some position (stated by position, not by search)
Occurs(needle, hay) ==
    \E i \in 0..(Len(hay) - Len(needle)) :
        \A j \in 1..Len(needle) : hay[i + j] = needle[j]

\* s is empty or is one of the items shown to the operator
Shown(s) == s = <<>> \/ \E i \in DOMAIN printed : printed[i] = s

\* the run has called subprocess.run for QEMU
LaunchReached ==
    /\ script \in {"test", "build"}
    /\ pc \notin {"start", "objdump", "launch"}
    /\ \E i \in DOMAIN printed :
          printed[i] \in { <<"Running:", T_QemuCmd>>, <<"Running:", B_QemuCmd>> }

Finished == pc \in {"exit", "done"}

\* C1: in test-x86-kernel.py, when QEMU ended before the deadline, the run
\* announces exactly one of Success / PartialSuccess / Failure, decided by
\* what QEMU wrote to stdout alone: Success if BOOTOK occurs anywhere in it
\* (with or without S6), PartialSuccess if S6 occurs and BOOTOK does not,
\* Failure if neither occurs; stderr and the QEMU exit code play no part.
C1_FirstMatchWins ==
    (script = "test" /\ Finished /\ proc["qemu"].state = "reaped" /\ ~timedOut)
    => LET out == proc["qemu"].stdout IN
       Outcomes = { IF Occurs(BOOTOK, out) THEN "Success"
                    ELSE IF Occurs(S6, out) THEN "PartialSuccess"
                    ELSE "Failure" }

\* C1 witness: a finished launch whose stdout holds S6 and, later, BOOTOK,
\* classified Success although QEMU exited non-zero with text on stderr.
C1_Witness ==
    /\ script = "test" /\ pc = "done" /\ ~timedOut
    /\ proc["qemu"].stdout = S6 \o BOOTOK
    /\ result.returncode = 1 /\ result.stderr # <<>>
    /\ Outcomes = {"Success"}

\* C2: at the end of a run of any of the three scripts the exit code follows
\* the outcome: 2 when the launch timed out, 1 on a hard failure (kernel
\* missing, no markers, hypervisor missing, image build unsupported), 0 when
\* the outcome is Success or PartialSuccess; so a timed-out launch and an
\* unsupported build never exit 0.
C2_ExitCodeFollowsOutcome ==
    pc = "done" =>
       /\ ("Timeout" \in Outcomes => exitCode = 2)
       /\ (Outcomes \cap {"ArtifactNotFound", "Failure", "ToolMissing", "Unsupported"} # {}
             => exitCode = 1)
       /\ (Outcomes \cap {"Success", "PartialSuccess"} # {} => exitCode = 0)

\* C3: once the VM was still running at the deadline the only outcome the run
\* ever announces is Timeout, whatever markers the captured stdout holds, and a
\* finished run has announced it; likewise a run that announces ToolMissing
\* announces nothing else (marker matching is skipped).
C3_TimeoutNotFailure ==
    /\ timedOut => /\ Outcomes \subseteq {"Timeout"}
                   /\ (Finished => Outcomes = {"Timeout"})
    /\ "ToolMissing" \in Outcomes => Outcomes = {"ToolMissing"}

\* C3 witness: a test run ended after the deadline hit a VM that had already
\* written BOOTOK.
C3_Witness ==
    /\ script = "test" /\ pc = "done" /\ timedOut
    /\ Occurs(BOOTOK, proc["qemu"].stdout)
    /\ Outcomes = {"Timeout"}

\* C4: when the kernel path does not exist, at no point of the run has any
\* child process been spawned, any file or directory been created, or the
\* image file been touched.
C4_MissingKernelNoSideEffects ==
    ~kernel_exists =>
       /\ \A c \in Children : proc[c] = NoProc
       /\ created = {}
       /\ image \in {"absent", "old"}

\* C4 witness: a run that found no kernel has ended.
C4_Witness == ~kernel_exists /\ pc = "done" /\ exitCode = 1

\* C5: in each of the three scripts a run that found no kernel ends with exit
\* code 1 and has shown a message that contains the build command.
C5_MissingKernelRemediation ==
    (pc = "done" /\ ~kernel_exists) =>
       /\ exitCode = 1
       /\ \E i \in DOMAIN printed :
             \E k \in DOMAIN printed[i] : printed[i][k] = BuildCommand

\* C6: of two runs of create-uefi-image.py, one that reported the image as
\* created and one that fell back to the manual path, the exit statuses the
\* caller sees differ.
C6_FallbackDistinguishable ==
    (script = "uefi" /\ pc = "done" /\ prev # <<>>) =>
       LET this == [outcomes |-> Outcomes, exitCode |-> exitCode]
           Same(a, b) == /\ "ImageCreated" \in a.outcomes
                         /\ "Unsupported" \in b.outcomes
                         /\ a.exitCode = b.exitCode
       IN ~Same(prev[1], this) /\ ~Same(this, prev[1])

\* C7: when the shim's image construction raised (create_disk_images, open or
\* write), the finished run has shown the shim's error text and the output
\* path holds no file this run created or truncated.
C7_BuildErrorLeavesNothing ==
    (script = "uefi" /\ pc = "done" /\ proc["shim"].stdout = ShimError) =>
       /\ image \in {"absent", "old"}
       /\ OutputImage \notin created
       /\ \E i \in DOMAIN printed : printed[i] = ShimError

\* C8 as stated: every run that reaches the launch step has spawned exactly
\* one VM process, and at the end that process is reaped.
C8_ExactlyOneSpawnedAndReaped ==
    (LaunchReached /\ Finished) =>
       /\ proc["qemu"].spawned = 1
       /\ proc["qemu"].state = "reaped"

\* C8 amended: a run that reaches the launch step spawns one VM process when
\* the hypervisor binary is found and none when it is not (ToolMissing), never
\* a second one, and no VM process is running once the script's main has
\* returned: a spawned one is reaped on every exit path.
C8_AtMostOneSpawnedAndReaped ==
    /\ proc["qemu"].spawned <= 1
    /\ LaunchReached =>
          proc["qemu"].spawned =
             IF pc = "notfound" \/ "ToolMissing" \in Outcomes THEN 0 ELSE 1
    /\ Finished => proc["qemu"].state = IF proc["qemu"].spawned = 1 THEN "reaped"
                                        ELSE "none"

\* C8 witness: a run ended after the deadline; its one VM process is reaped.
C8_Witness ==
    /\ pc = "done" /\ timedOut
    /\ proc["qemu"].spawned = 1 /\ proc["qemu"].state = "reaped"

\* C9: when a script ends, whatever each child it ran wrote to stdout and to
\* stderr is among what the operator was shown.
C9_OutputSurfaced ==
    pc = "done" =>
       \A c \in Children :
          proc[c].spawned > 0 => Shown(proc[c].stdout) /\ Shown(proc[c].stderr)

\* C10: in test-x86-kernel.py with the kernel present, whatever objdump did,
\* the finished run has launched QEMU and its outcome and exit code are those
\* the QEMU behaviour alone dictates.
C10_ObjdumpOffDecisionPath ==
    (script = "test" /\ kernel_exists /\ pc = "done") =>
       /\ LaunchReached
       /\ LET out == proc["qemu"].stdout
              want == IF proc["qemu"].spawned = 0 THEN <<"ToolMissing", 1>>
                      ELSE IF timedOut THEN <<"Timeout", 2>>
                      ELSE IF Occurs(BOOTOK, out) THEN <<"Success", 0>>
                      ELSE IF Occurs(S6, out) THEN <<"PartialSuccess", 0>>
                      ELSE <<"Failure", 1>>
          IN Outcomes = {want[1]} /\ exitCode = want[2]

====
